---- MODULE Spec2Model ----
(***************************************************************************)
(* Model of the kvass store facade (src/bbolt/bblot.go): a thin wrapper    *)
(* over the bbolt engine.  The file holds two definitions of Store; the    *)
(* first (lines 1-136) has a saturating Incr and a Delete, the second      *)
(* (lines 138-270) has a wrapping Incr and no Delete.  The variable impl   *)
(* says which of the two the program was built with.                       *)
(*                                                                         *)
(* A bucket is modelled as bbolt keeps it: a sequence of entries sorted by *)
(* byte-lexicographic key order, unique keys.  Byte strings are sequences  *)
(* of 0..255.  A uint64 is four 16-bit limbs, most significant first, so   *)
(* that 64-bit arithmetic is exact.  An optional byte string ([]byte that  *)
(* may be nil) is a sequence of length at most one: Nil or Some(v).        *)
(***************************************************************************)
EXTENDS Integers, Sequences, FiniteSets, TLC

VARIABLES
    impl,      \* 1 or 2: which definition of Store is built
    buckets,   \* committed store: bucket name -> sorted sequence of entries
    writes,    \* number of committed Puts so far (bounded by MaxWrites)
    last,      \* the last facade call: its arguments and what it returned
    hist,      \* history of each (bucket, key): what the calls so far did to it
    procs      \* concurrent callers: each one's call in progress and its transaction

vars == <<impl, buckets, writes, last, hist, procs>>

\* ---------------------------------------------------------------- bounds
MaxWrites == 2
MaxScanWrites == 3
MaxBetweenWrites == 3
MaxTxWrites == 3

\* ------------------------------------------------------------ byte strings
A == <<1>>
AB == <<1, 2>>
B == <<2>>
Empty == <<>>

Keys == {Empty, A, AB, B}
BucketNames == {Empty, A, B}

Max8 == <<255, 255, 255, 255, 255, 255, 255, 255>>
Values == {Empty, <<5>>, Max8}
ScanValues == {<<5>>, <<6>>}
DataBuckets == BucketNames \ {Empty}
PointKeys == {Empty, A, B}
Ends == {A, B}

Nil == <<>>
Some(v) == <<v>>

\* ----------------------------------------------------------------- errors
ErrNil == "nil"
ErrNotfound == "ErrNotfound"
ErrTxNotWritable == "ErrTxNotWritable"
ErrKeyRequired == "ErrKeyRequired"
ErrIO == "IOError"
EOF == "EOF"
Panic == "panic"

\* ------------------------------------------------- bytes package (Go stdlib)
RECURSIVE CompareFrom(_, _, _)
CompareFrom(a, b, i) ==
    IF i > Len(a) /\ i > Len(b) THEN 0
    ELSE IF i > Len(a) THEN -1
    ELSE IF i > Len(b) THEN 1
    ELSE IF a[i] < b[i] THEN -1
    ELSE IF a[i] > b[i] THEN 1
    ELSE CompareFrom(a, b, i + 1)

\* bytes.Compare: -1, 0, 1 by byte-lexicographic order
Compare(a, b) == CompareFrom(a, b, 1)

\* bytes.HasPrefix
HasPrefix(k, prefix) ==
    /\ Len(k) >= Len(prefix)
    /\ \A i \in 1..Len(prefix) : k[i] = prefix[i]

\* ------------------------------------------- encoding/binary, uint64 arithmetic
\* math.MaxUint64 as four 16-bit limbs
MaxUint64 == <<65535, 65535, 65535, 65535>>
Zero64 == <<0, 0, 0, 0>>

\* binary.BigEndian.Uint64 reads the first 8 bytes; it panics on fewer
Uint64Panics(b) == Len(b) < 8
Uint64(b) == [i \in 1..4 |-> b[2 * i - 1] * 256 + b[2 * i]]

\* mutant: the counter written least significant byte first
PutUint64LittleEndian(n) == [i \in 1..8 |-> IF i % 2 = 1 THEN n[4 - (i - 1) \div 2] % 256
                                                        ELSE n[5 - i \div 2] \div 256]

\* binary.BigEndian.PutUint64 into a fresh 8-byte slice
PutUint64(n) == [i \in 1..8 |-> IF i % 2 = 1 THEN n[(i + 1) \div 2] \div 256
                                            ELSE n[i \div 2] % 256]

RECURSIVE Carry(_, _)
Carry(n, i) ==
    IF i = 0 THEN n
    ELSE IF n[i] = 65535 THEN Carry([n EXCEPT ![i] = 0], i - 1)
    ELSE [n EXCEPT ![i] = n[i] + 1]

\* n += 1 on a uint64: wraps to 0 at the maximum
AddOne(n) == Carry(n, 4)

\* ------------------------------------------------------------ bbolt engine
Entry(k, v) == [k |-> k, v |-> v]

\* tx.Bucket: nil when the bucket does not exist
TxBucket(db, name) == IF name \in DOMAIN db THEN Some(db[name]) ELSE Nil

RECURSIVE SeekFrom(_, _, _)
SeekFrom(es, key, i) ==
    IF i > Len(es) THEN i
    ELSE IF Compare(es[i].k, key) >= 0 THEN i
    ELSE SeekFrom(es, key, i + 1)

\* Cursor.Seek: position of the first entry whose key is >= key; Len+1 at the end
Seek(es, key) == SeekFrom(es, key, 1)

\* mutant: the entry under the cursor is returned without comparing its key
BucketGetAtSeek(es, key) ==
    LET i == Seek(es, key)
    IN IF i <= Len(es) THEN Some(es[i].v) ELSE Nil

\* Bucket.Get: nil when the key is absent
BucketGet(es, key) ==
    LET i == Seek(es, key)
    IN IF i <= Len(es) /\ es[i].k = key THEN Some(es[i].v) ELSE Nil

\* mutant: an existing key keeps its old value
PutInsertKeepOld(es, i, key, value) ==
    IF i <= Len(es) /\ es[i].k = key
    THEN es
    ELSE SubSeq(es, 1, i - 1) \o <<Entry(key, value)>> \o SubSeq(es, i, Len(es))

\* mutant: a new key goes to the end of the bucket
PutInsertAppend(es, i, key, value) ==
    IF i <= Len(es) /\ es[i].k = key
    THEN [es EXCEPT ![i] = Entry(key, value)]
    ELSE Append(es, Entry(key, value))

\* mutant: the entry at the cursor is replaced whatever its key
PutInsertOverwrite(es, i, key, value) ==
    IF i <= Len(es)
    THEN [es EXCEPT ![i] = Entry(key, value)]
    ELSE Append(es, Entry(key, value))

\* the leaf update of Bucket.Put: replace the entry at the cursor when its key
\* matches, else insert before it
PutInsert(es, i, key, value) ==
    IF i <= Len(es) /\ es[i].k = key
    THEN [es EXCEPT ![i] = Entry(key, value)]
    ELSE SubSeq(es, 1, i - 1) \o <<Entry(key, value)>> \o SubSeq(es, i, Len(es))

\* Bucket.Put in a writable transaction: a blank key is refused
BucketPut(es, key, value) ==
    IF Len(key) = 0 THEN [err |-> ErrKeyRequired, es |-> es]
    ELSE [err |-> ErrNil, es |-> PutInsert(es, Seek(es, key), key, value)]

\* Bucket.Delete: refused in a read-only transaction
BucketDelete(es, key, writable) ==
    IF ~writable THEN [err |-> ErrTxNotWritable, es |-> es]
    ELSE LET i == Seek(es, key)
         IN [err |-> ErrNil,
             es |-> IF i <= Len(es) /\ es[i].k = key
                    THEN SubSeq(es, 1, i - 1) \o SubSeq(es, i + 1, Len(es))
                    ELSE es]

\* db.Update: the closure's changes are committed only when it returns nil
Update(db, r) == IF r.err = ErrNil THEN r.db ELSE db

\* --------------------------------------------------------- the scan visitor
\* The caller's visitor next(key, val): it returns false on the keys in stop
Visitor(stop, k, v) == k \notin stop
Visitors == {{}, {AB}}

\* ------------------------------------------------- transaction closures
\* Each is the function handed to db.Update / db.View, on the transaction's
\* view db of the store; err = Panic is a nil-pointer or index panic.

\* mutant: an existing bucket is replaced by an empty one
CreateBucketTxReset(db, bucket) ==
    IF Len(bucket) = 0 THEN [err |-> Panic, db |-> db]
    ELSE [err |-> ErrNil, db |-> [n \in DOMAIN db \cup {bucket} |->
                                    IF n = bucket THEN <<>> ELSE db[n]]]

CreateBucketIfNotExistTx(db, bucket) ==
    IF Len(bucket) = 0 THEN [err |-> Panic, db |-> db]
    ELSE IF bucket \in DOMAIN db THEN [err |-> ErrNil, db |-> db]
    ELSE [err |-> ErrNil, db |-> [n \in DOMAIN db \cup {bucket} |->
                                    IF n = bucket THEN <<>> ELSE db[n]]]

IncrTx(db, bucket, key, saturate) ==
    LET b == TxBucket(db, bucket) IN
    IF b = Nil THEN [err |-> Panic, n |-> Zero64, old |-> Nil, db |-> db]
    ELSE LET old == BucketGet(b[1], key) IN
         IF old # Nil /\ Uint64Panics(old[1])
         THEN [err |-> Panic, n |-> Zero64, old |-> old, db |-> db]
         ELSE LET n0 == IF old # Nil THEN Uint64(old[1]) ELSE Zero64 IN
              IF saturate /\ n0 = MaxUint64
              THEN [err |-> ErrNil, n |-> n0, old |-> old, db |-> db]
              ELSE LET n1 == AddOne(n0)
                       p == BucketPut(b[1], key, PutUint64(n1))
                   IN [err |-> p.err, n |-> n1, old |-> old,
                       db |-> [db EXCEPT ![bucket] = p.es]]

SaveTx(db, bucket, key, val) ==
    LET b == TxBucket(db, bucket) IN
    IF b = Nil THEN [err |-> Panic, db |-> db]
    ELSE LET p == BucketPut(b[1], key, val)
         IN [err |-> p.err, db |-> [db EXCEPT ![bucket] = p.es]]

GetTx(db, bucket, key) ==
    LET b == TxBucket(db, bucket) IN
    IF b = Nil THEN [err |-> Panic, val |-> Nil]
    ELSE LET val == BucketGet(b[1], key) IN
         IF val = Nil THEN [err |-> ErrNotfound, val |-> val]
         ELSE [err |-> ErrNil, val |-> val]

\* Delete runs Bucket.Delete inside db.View, a read-only transaction
DeleteTx(db, bucket, key) ==
    LET b == TxBucket(db, bucket) IN
    IF b = Nil THEN [err |-> Panic, db |-> db]
    ELSE LET d == BucketDelete(b[1], key, FALSE)
         IN [err |-> d.err, db |-> [db EXCEPT ![bucket] = d.es]]

\* mutant: the walk goes on after the visitor returned false
RECURSIVE ForEachGoesOn(_, _, _, _)
ForEachGoesOn(es, i, stop, acc) ==
    IF i > Len(es)
    THEN [err |-> IF \E j \in 1..Len(acc) : ~Visitor(stop, acc[j].k, acc[j].v)
                  THEN EOF ELSE ErrNil,
          visited |-> acc]
    ELSE ForEachGoesOn(es, i + 1, stop, Append(acc, es[i]))

\* Bucket.ForEach with the closure of Scan: every entry from the first, in order
RECURSIVE ForEach(_, _, _, _)
ForEach(es, i, stop, acc) ==
    IF i > Len(es) THEN [err |-> ErrNil, visited |-> acc]
    ELSE IF ~Visitor(stop, es[i].k, es[i].v)
         THEN [err |-> EOF, visited |-> Append(acc, es[i])]
         ELSE ForEach(es, i + 1, stop, Append(acc, es[i]))

ScanTx(db, bucket, stop) ==
    LET b == TxBucket(db, bucket) IN
    IF b = Nil THEN [err |-> Panic, visited |-> <<>>]
    ELSE ForEach(b[1], 1, stop, <<>>)

\* mutant: the loop does not test the prefix
RECURSIVE PrefixLoopNoTest(_, _, _, _, _)
PrefixLoopNoTest(es, i, prefix, stop, acc) ==
    IF ~(i <= Len(es)) THEN [err |-> ErrNil, visited |-> acc]
    ELSE IF ~Visitor(stop, es[i].k, es[i].v)
         THEN [err |-> EOF, visited |-> Append(acc, es[i])]
         ELSE PrefixLoopNoTest(es, i + 1, prefix, stop, Append(acc, es[i]))

\* the for loop of FindPrefix, from cursor position i
RECURSIVE PrefixLoop(_, _, _, _, _)
PrefixLoop(es, i, prefix, stop, acc) ==
    IF ~(i <= Len(es) /\ HasPrefix(es[i].k, prefix)) THEN [err |-> ErrNil, visited |-> acc]
    ELSE IF ~Visitor(stop, es[i].k, es[i].v)
         THEN [err |-> EOF, visited |-> Append(acc, es[i])]
         ELSE PrefixLoop(es, i + 1, prefix, stop, Append(acc, es[i]))

FindPrefixTx(db, bucket, prefix, stop) ==
    LET b == TxBucket(db, bucket) IN
    IF b = Nil THEN [err |-> Panic, visited |-> <<>>]
    ELSE PrefixLoop(b[1], Seek(b[1], prefix), prefix, stop, <<>>)

\* mutant: the upper bound is exclusive
RECURSIVE BetweenLoopExclusive(_, _, _, _, _)
BetweenLoopExclusive(es, i, end, stop, acc) ==
    IF ~(i <= Len(es) /\ Compare(es[i].k, end) < 0) THEN [err |-> ErrNil, visited |-> acc]
    ELSE IF ~Visitor(stop, es[i].k, es[i].v)
         THEN [err |-> EOF, visited |-> Append(acc, es[i])]
         ELSE BetweenLoopExclusive(es, i + 1, end, stop, Append(acc, es[i]))

\* mutant: a false from the visitor ends the loop like a break
RECURSIVE BetweenLoopBreak(_, _, _, _, _)
BetweenLoopBreak(es, i, end, stop, acc) ==
    IF ~(i <= Len(es) /\ Compare(es[i].k, end) <= 0) THEN [err |-> ErrNil, visited |-> acc]
    ELSE IF ~Visitor(stop, es[i].k, es[i].v)
         THEN [err |-> ErrNil, visited |-> Append(acc, es[i])]
         ELSE BetweenLoopBreak(es, i + 1, end, stop, Append(acc, es[i]))

\* the for loop of FindBetween, from cursor position i
RECURSIVE BetweenLoop(_, _, _, _, _)
BetweenLoop(es, i, end, stop, acc) ==
    IF ~(i <= Len(es) /\ Compare(es[i].k, end) <= 0) THEN [err |-> ErrNil, visited |-> acc]
    ELSE IF ~Visitor(stop, es[i].k, es[i].v)
         THEN [err |-> EOF, visited |-> Append(acc, es[i])]
         ELSE BetweenLoop(es, i + 1, end, stop, Append(acc, es[i]))

\* mutant: the bounds are used as given, never swapped
FindBetweenTxNoSwap(db, bucket, start, end, stop) ==
    LET b == TxBucket(db, bucket)
    IN IF b = Nil THEN [err |-> Panic, visited |-> <<>>]
       ELSE BetweenLoop(b[1], Seek(b[1], start), end, stop, <<>>)

FindBetweenTx(db, bucket, start, end, stop) ==
    LET lo == IF Compare(start, end) > 0 THEN end ELSE start
        hi == IF Compare(start, end) > 0 THEN start ELSE end
        b == TxBucket(db, bucket)
    IN IF b = Nil THEN [err |-> Panic, visited |-> <<>>]
       ELSE BetweenLoop(b[1], Seek(b[1], lo), hi, stop, <<>>)

\* ------------------------------------------------------------------ state
Pairs == DataBuckets \X Keys

\* what the calls so far did to one (bucket, key):
\*   call    the value of the most recent Save call that returned (error or not)
\*   saved   the value of the most recent Save that returned no error
\*   (both Nil before any Save, and again after an Incr wrote the key)
\*   incrs   the number of Incr calls so far, -1 once a Save wrote the key
\*   written a Save or Incr on it has returned no error
\*   deleted Delete was called on it after it was written, and no write since
Fresh == [call |-> Nil, saved |-> Nil, incrs |-> 0, written |-> FALSE, deleted |-> FALSE]

NoCall == [op |-> "none", bucket |-> Empty, key |-> Empty, end |-> Empty,
           arg |-> Empty, stop |-> {}, val |-> Nil, n |-> Zero64, old |-> Nil,
           err |-> ErrNil, visited |-> <<>>]

\* A caller between calls (pc = "idle") holds what its last call returned.
\*   pc         "idle", "waiting" for the writer lock, "writing" inside a write
\*              transaction, "reading" inside a read transaction
\*   tx         the store as the caller's open transaction sees it
\*   idx        the position of the scan's cursor
\*   begun      the committed store when the read transaction began
\*   overlapped a write transaction committed while the read one was open
Procs == {1, 2}
IdleProc == [pc |-> "idle", op |-> "none", bucket |-> Empty, key |-> Empty,
             arg |-> Empty, stop |-> {}, tx |-> <<>>, begun |-> <<>>, idx |-> 0,
             visited |-> <<>>, n |-> Zero64, err |-> ErrNil, overlapped |-> FALSE]

Init ==
    /\ impl \in {1, 2}
    /\ buckets = <<>>
    /\ writes = 0
    /\ last = NoCall
    /\ hist = [p \in Pairs |-> Fresh]
    /\ procs = [p \in Procs |-> IdleProc]

\* last.old is what Incr found stored under the key before it wrote (nil if absent).

\* a panic ends the program
Running == last.err # Panic

HistAfter(r, bucket, key, h) ==
    IF r.err = Panic THEN hist ELSE [hist EXCEPT ![<<bucket, key>>] = h]

\* ---------------------------------------------------------------- actions
CreateBucketIfNotExist(bucket) ==
    LET r == CreateBucketIfNotExistTx(buckets, bucket) IN
    /\ Running
    /\ buckets' = Update(buckets, r)
    /\ last' = [NoCall EXCEPT !.op = "CreateBucketIfNotExist", !.bucket = bucket,
                              !.err = r.err]
    /\ UNCHANGED <<impl, writes, hist, procs>>

Incr(bucket, key) ==
    LET r == IncrTx(buckets, bucket, key, impl = 1)
        h == hist[<<bucket, key>>]
    IN
    /\ Running
    /\ buckets' = Update(buckets, r)
    /\ writes' = writes + 1
    /\ last' = [NoCall EXCEPT !.op = "Incr", !.bucket = bucket, !.key = key,
                              !.n = r.n, !.old = r.old, !.err = r.err]
    /\ hist' = HistAfter(r, bucket, key,
                  [h EXCEPT !.incrs = IF h.incrs >= 0 THEN h.incrs + 1 ELSE -1,
                            !.call = IF r.err = ErrNil THEN Nil ELSE h.call,
                            !.saved = IF r.err = ErrNil THEN Nil ELSE h.saved,
                            !.written = h.written \/ r.err = ErrNil,
                            !.deleted = h.deleted /\ r.err # ErrNil])
    /\ UNCHANGED <<impl, procs>>

Save(bucket, key, val) ==
    LET r == SaveTx(buckets, bucket, key, val)
        h == hist[<<bucket, key>>]
    IN
    /\ Running
    /\ buckets' = Update(buckets, r)
    /\ writes' = writes + 1
    /\ last' = [NoCall EXCEPT !.op = "Save", !.bucket = bucket, !.key = key,
                              !.arg = val, !.err = r.err]
    /\ hist' = HistAfter(r, bucket, key,
                  [h EXCEPT !.call = Some(val),
                            !.saved = IF r.err = ErrNil THEN Some(val) ELSE h.saved,
                            !.incrs = IF r.err = ErrNil THEN -1 ELSE h.incrs,
                            !.written = h.written \/ r.err = ErrNil,
                            !.deleted = h.deleted /\ r.err # ErrNil])
    /\ UNCHANGED <<impl, procs>>

Get(bucket, key) ==
    LET r == GetTx(buckets, bucket, key) IN
    /\ Running
    /\ last' = [NoCall EXCEPT !.op = "Get", !.bucket = bucket, !.key = key,
                              !.val = r.val, !.err = r.err]
    /\ UNCHANGED <<impl, buckets, writes, hist, procs>>

\* only the first definition of Store has Delete; db.View never commits
Delete(bucket, key) ==
    LET r == DeleteTx(buckets, bucket, key)
        h == hist[<<bucket, key>>]
    IN
    /\ Running
    /\ impl = 1
    /\ last' = [NoCall EXCEPT !.op = "Delete", !.bucket = bucket, !.key = key,
                              !.err = r.err]
    /\ hist' = HistAfter(r, bucket, key, [h EXCEPT !.deleted = h.written])
    /\ UNCHANGED <<impl, buckets, writes, procs>>

\* mutant: the entries the visitor saw are removed from the bucket
ScanConsuming(bucket, stop) ==
    LET r == ScanTx(buckets, bucket, stop) IN
    /\ Running
    /\ last' = [NoCall EXCEPT !.op = "Scan", !.bucket = bucket, !.stop = stop,
                              !.visited = r.visited, !.err = r.err]
    /\ buckets' = IF r.err = Panic THEN buckets
                  ELSE [buckets EXCEPT ![bucket] =
                           SubSeq(@, Len(r.visited) + 1, Len(@))]
    /\ UNCHANGED <<impl, writes, hist, procs>>

Scan(bucket, stop) ==
    LET r == ScanTx(buckets, bucket, stop) IN
    /\ Running
    /\ last' = [NoCall EXCEPT !.op = "Scan", !.bucket = bucket, !.stop = stop,
                              !.visited = r.visited, !.err = r.err]
    /\ UNCHANGED <<impl, buckets, writes, hist, procs>>

FindPrefix(bucket, prefix, stop) ==
    LET r == FindPrefixTx(buckets, bucket, prefix, stop) IN
    /\ Running
    /\ last' = [NoCall EXCEPT !.op = "FindPrefix", !.bucket = bucket, !.key = prefix,
                              !.stop = stop, !.visited = r.visited, !.err = r.err]
    /\ UNCHANGED <<impl, buckets, writes, hist, procs>>

FindBetween(bucket, start, end, stop) ==
    LET r == FindBetweenTx(buckets, bucket, start, end, stop) IN
    /\ Running
    /\ last' = [NoCall EXCEPT !.op = "FindBetween", !.bucket = bucket, !.key = start,
                              !.end = end, !.stop = stop, !.visited = r.visited,
                              !.err = r.err]
    /\ UNCHANGED <<impl, buckets, writes, hist, procs>>

\* The point operations: every call of the facade that reads or writes one key.
Next ==
    \/ \E b \in BucketNames : CreateBucketIfNotExist(b)
    \/ \E b \in DataBuckets, k \in PointKeys : writes < MaxWrites /\ Incr(b, k)
    \/ \E b \in DataBuckets, k \in PointKeys, v \in Values : writes < MaxWrites /\ Save(b, k, v)
    \/ \E b \in DataBuckets, k \in PointKeys : Get(b, k)
    \/ \E b \in DataBuckets, k \in PointKeys : Delete(b, k)

Spec == Init /\ [][Next]_vars

\* The cursor scans, over stores built by CreateBucketIfNotExist and Save of
\* non-empty keys (Spec covers the Save of an empty key).  A scan of a bucket
\* not yet created panics like every call on a nil bucket.
NextScan ==
    \/ \E b \in BucketNames : CreateBucketIfNotExist(b)
    \/ \E b \in DataBuckets, k \in Keys \ {Empty}, v \in ScanValues : writes < MaxScanWrites /\ Save(b, k, v)
    \/ \E b \in DataBuckets, st \in Visitors : Scan(b, st)
    \/ \E b \in DataBuckets, k \in Keys, st \in Visitors : FindPrefix(b, k, st)
    \/ \E b \in DataBuckets, k \in Ends, e \in Ends, st \in Visitors : FindBetween(b, k, e, st)
    \/ \E b \in DataBuckets, k \in PointKeys : Get(b, k)

SpecScan == Init /\ [][NextScan]_vars

\* The range scan with every pair of bounds and both visitors, over one
\* bucket filled by Save.
NextBetween ==
    \/ \E b \in BucketNames : CreateBucketIfNotExist(b)
    \/ \E k \in Keys \ {Empty}, v \in ScanValues : writes < MaxBetweenWrites /\ Save(A, k, v)
    \/ \E k \in Keys, e \in Keys, st \in Visitors : FindBetween(A, k, e, st)

SpecBetween == Init /\ [][NextBetween]_vars

\* ------------------------------------------------ concurrent callers
\* The facade has no lock of its own: each call is one db.Update or db.View
\* of the engine.  A write call waits for the engine's writer lock, runs its
\* closure on the store as of the lock's acquisition and commits; the commit
\* can fail on the disk (IOError), and then nothing of it is kept.  A scan
\* runs in a read transaction that begins at once, on the store committed at
\* that moment, and calls the visitor entry by entry while other callers go on.
TxKeys == {A, AB}
TxValues == {<<5>>}

TxRunning == \A p \in Procs : procs[p].err # Panic

\* mutant: a write transaction begins while another one is open
WriterLockTaken(p) == TRUE

\* db.Update -> db.Begin(true): the writer lock is free
WriterLockFree(p) == \A q \in Procs : procs[q].pc # "writing"

\* mutant: a failed commit leaves the transaction's changes in the store
CommitTorn(db, txdb, ok) == txdb

\* tx.Commit: the transaction's store becomes the committed one, or on a disk
\* failure the committed one stays
Commit(db, txdb, ok) == IF ok THEN txdb ELSE db

\* mutant: the scan reads the bucket as committed now, not through its transaction
TxBucketLive(p) == buckets[procs[p].bucket]

\* tx.Bucket(bucket) inside the closure of a scan: the bucket of its transaction
TxBucketOf(p) == procs[p].tx[procs[p].bucket]

\* the closure of the write call p is in, run on its transaction
WriteTx(p) ==
    LET c == procs[p] IN
    CASE c.op = "CreateBucketIfNotExist" ->
            [n |-> Zero64] @@ CreateBucketIfNotExistTx(c.tx, c.bucket)
      [] c.op = "Save" -> [n |-> Zero64] @@ SaveTx(c.tx, c.bucket, c.key, c.arg)
      [] c.op = "Incr" -> IncrTx(c.tx, c.bucket, c.key, impl = 1)

HistIncr(h, err) ==
    [h EXCEPT !.incrs = IF h.incrs >= 0 THEN h.incrs + 1 ELSE -1,
              !.call = IF err = ErrNil THEN Nil ELSE h.call,
              !.saved = IF err = ErrNil THEN Nil ELSE h.saved,
              !.written = h.written \/ err = ErrNil,
              !.deleted = h.deleted /\ err # ErrNil]

HistSave(h, err, val) ==
    [h EXCEPT !.call = Some(val),
              !.saved = IF err = ErrNil THEN Some(val) ELSE h.saved,
              !.incrs = IF err = ErrNil THEN -1 ELSE h.incrs,
              !.written = h.written \/ err = ErrNil,
              !.deleted = h.deleted /\ err # ErrNil]

\* another caller's write call is in progress
Contended(p) == \E q \in Procs \ {p} : procs[q].pc \in {"waiting", "writing"}

\* a caller enters CreateBucketIfNotExist, Incr or Save: db.Update asks for the lock
TxCall(p, op, bucket, key, val) ==
    /\ TxRunning
    /\ procs[p].pc = "idle"
    /\ procs' = [q \in Procs |->
                   IF q = p
                   THEN [IdleProc EXCEPT !.pc = "waiting", !.op = op, !.bucket = bucket,
                                         !.key = key, !.arg = val,
                                         !.overlapped = Contended(p)]
                   ELSE IF procs[q].pc \in {"waiting", "writing"}
                        THEN [procs[q] EXCEPT !.overlapped = TRUE]
                        ELSE procs[q]]
    /\ writes' = writes + 1
    /\ UNCHANGED <<impl, buckets, last, hist>>

\* the write transaction begins: it sees the store committed now
TxBeginWrite(p) ==
    /\ TxRunning
    /\ procs[p].pc = "waiting"
    /\ WriterLockFree(p)
    /\ procs' = [procs EXCEPT ![p].pc = "writing", ![p].tx = buckets]
    /\ UNCHANGED <<impl, buckets, writes, last, hist>>

\* the closure runs and db.Update commits (ok: the disk takes the commit) or
\* rolls back; the call returns
TxEndWrite(p, ok) ==
    LET c == procs[p]
        r == WriteTx(p)
        committed == r.err = ErrNil /\ ok
        err == IF r.err # ErrNil THEN r.err ELSE IF ok THEN ErrNil ELSE ErrIO
        pair == <<c.bucket, c.key>>
    IN
    /\ TxRunning
    /\ c.pc = "writing"
    /\ buckets' = IF r.err = ErrNil THEN Commit(buckets, r.db, ok) ELSE buckets
    /\ procs' = [q \in Procs |->
                   IF q = p
                   THEN [c EXCEPT !.pc = "idle", !.tx = <<>>, !.n = r.n, !.err = err]
                   ELSE IF procs[q].pc = "reading" /\ committed
                        THEN [procs[q] EXCEPT !.overlapped = TRUE]
                        ELSE procs[q]]
    /\ hist' = IF err = Panic \/ c.op = "CreateBucketIfNotExist" THEN hist
               ELSE IF c.op = "Incr" THEN [hist EXCEPT ![pair] = HistIncr(@, err)]
               ELSE [hist EXCEPT ![pair] = HistSave(@, err, c.arg)]
    /\ UNCHANGED <<impl, writes, last>>

\* where the cursor of a scan starts
ReadStart(op, es, key, end) ==
    CASE op = "Scan" -> 1
      [] op = "FindPrefix" -> Seek(es, key)
      [] op = "FindBetween" -> Seek(es, IF Compare(key, end) > 0 THEN end ELSE key)

\* the loop condition of a scan on the entry under the cursor
ReadGoesOn(op, e, key, end) ==
    CASE op = "Scan" -> TRUE
      [] op = "FindPrefix" -> HasPrefix(e.k, key)
      [] op = "FindBetween" ->
            Compare(e.k, IF Compare(key, end) > 0 THEN key ELSE end) <= 0

\* a caller enters Scan, FindPrefix or FindBetween: db.View begins a read
\* transaction on the store committed now, without waiting
TxBeginRead(p, op, bucket, key, end, stop) ==
    /\ TxRunning
    /\ procs[p].pc = "idle"
    /\ procs' = [procs EXCEPT ![p] =
          IF bucket \notin DOMAIN buckets
          THEN [IdleProc EXCEPT !.op = op, !.bucket = bucket, !.err = Panic]
          ELSE [IdleProc EXCEPT !.pc = "reading", !.op = op, !.bucket = bucket,
                                !.key = key, !.arg = end, !.stop = stop,
                                !.tx = buckets, !.begun = buckets,
                                !.idx = ReadStart(op, buckets[bucket], key, end)]]
    /\ UNCHANGED <<impl, buckets, writes, last, hist>>

\* one turn of the scan's loop: the call of the visitor on the entry under
\* the cursor, or the end of the scan
TxReadStep(p) ==
    LET c == procs[p]
        es == TxBucketOf(p)
    IN
    /\ TxRunning
    /\ c.pc = "reading"
    /\ procs' = [procs EXCEPT ![p] =
          IF ~(c.idx <= Len(es) /\ ReadGoesOn(c.op, es[c.idx], c.key, c.arg))
          THEN [c EXCEPT !.pc = "idle", !.tx = <<>>, !.err = ErrNil]
          ELSE IF ~Visitor(c.stop, es[c.idx].k, es[c.idx].v)
               THEN [c EXCEPT !.pc = "idle", !.tx = <<>>, !.err = EOF,
                              !.visited = Append(c.visited, es[c.idx])]
               ELSE [c EXCEPT !.idx = c.idx + 1,
                              !.visited = Append(c.visited, es[c.idx])]]
    /\ UNCHANGED <<impl, buckets, writes, last, hist>>

NextTx ==
    \/ \E p \in Procs : writes < MaxTxWrites /\ TxCall(p, "CreateBucketIfNotExist", A, Empty, Empty)
    \/ \E p \in Procs, k \in TxKeys : writes < MaxTxWrites /\ TxCall(p, "Incr", A, k, Empty)
    \/ \E p \in Procs, k \in TxKeys \cup {Empty}, v \in TxValues : writes < MaxTxWrites /\ TxCall(p, "Save", A, k, v)
    \/ \E p \in Procs : TxBeginWrite(p)
    \/ \E p \in Procs, ok \in BOOLEAN : TxEndWrite(p, ok)
    \/ \E p \in Procs, st \in Visitors : TxBeginRead(p, "Scan", A, Empty, Empty, st)
    \/ \E p \in Procs : TxBeginRead(p, "FindPrefix", A, AB, Empty, {})
    \/ \E p \in Procs : TxBeginRead(p, "FindBetween", A, AB, A, {})
    \/ \E p \in Procs : TxReadStep(p)

SpecTx == Init /\ [][NextTx]_vars

\* ================================================================ claims
\* the history and the stored value of the key the last call was about
LastHist == hist[<<last.bucket, last.key>>]
LastStored == BucketGet(buckets[last.bucket], last.key)
Returned(op) == last.op = op /\ last.err # Panic

\* C1 as stated: Get(bucket, k) returns exactly the value passed to the most
\* recent Save(bucket, k, v) call, whatever that Save returned.
C1_GetReturnsLastSaveCall ==
    (Returned("Get") /\ LastHist.call # Nil)
        => (last.err = ErrNil /\ last.val = LastHist.call)

\* C1 amended: Get(bucket, k) returns exactly the value passed to the most
\* recent Save(bucket, k, v) that returned no error, regardless of Saves to
\* other keys; a Save with an empty key returns ErrKeyRequired and stores
\* nothing, so Get of the empty key returns ErrNotfound.
C1_GetReturnsLastSaved ==
    Returned("Get") =>
        /\ LastHist.saved # Nil => (last.err = ErrNil /\ last.val = LastHist.saved)
        /\ last.key = Empty => (last.err = ErrNotfound /\ LastHist.saved = Nil)

\* a Get returned the saved value of a key while another key of the same
\* bucket holds a different value
C1_Witness ==
    /\ Returned("Get") /\ LastHist.saved # Nil /\ last.val = LastHist.saved
    /\ \E k \in Keys \ {last.key} :
          /\ hist[<<last.bucket, k>>].saved # Nil
          /\ hist[<<last.bucket, k>>].saved # last.val

\* C2: after Delete(bucket, k) of a written key, with no write of k since,
\* Get(bucket, k) returns ErrNotfound.
C2_GetAfterDeleteNotFound ==
    (Returned("Get") /\ LastHist.deleted) => last.err = ErrNotfound

\* C3: Delete(bucket, k) on an existing bucket returns no error, whether k
\* is present or absent.
C3_DeleteReturnsNoError ==
    Returned("Delete") => last.err = ErrNil

\* C4: Incr on a key whose stored counter is the maximum 64-bit value
\* returns the maximum and leaves the maximum stored.
C4_IncrSaturates ==
    (Returned("Incr") /\ last.old = Some(Max8))
        => (last.n = MaxUint64 /\ LastStored = Some(Max8))

\* the counter N as Incr returns it, and as it is stored (N below 256)
Counter(N) == <<0, 0, 0, N>>
CounterBytes(N) == <<0, 0, 0, 0, 0, 0, 0, N>>

\* C5 as stated: on a key no Save has written, the N-th Incr call returns N
\* and leaves the 8-byte big-endian encoding of N stored, for every key.
C5_NthIncrReturnsN ==
    (Returned("Incr") /\ LastHist.incrs >= 1)
        => /\ last.n = Counter(LastHist.incrs)
           /\ LastStored = Some(CounterBytes(LastHist.incrs))

\* C5 amended: on a non-empty key no Save has written, the N-th Incr call
\* returns N with no error and leaves the 8-byte big-endian encoding of N
\* stored; on the empty key every Incr call returns 1 together with
\* ErrKeyRequired and stores nothing.
C5_NthIncrReturnsNOnKey ==
    (Returned("Incr") /\ LastHist.incrs >= 1) =>
        IF last.key # Empty
        THEN /\ last.err = ErrNil
             /\ last.n = Counter(LastHist.incrs)
             /\ LastStored = Some(CounterBytes(LastHist.incrs))
             /\ LastStored = Some(PutUint64(last.n))
        ELSE /\ last.err = ErrKeyRequired
             /\ last.n = Counter(1)
             /\ LastStored = Nil

\* the second Incr on a fresh key has returned 2
C5_Witness ==
    /\ Returned("Incr") /\ last.key # Empty
    /\ LastHist.incrs = 2 /\ last.n = Counter(2)

\* C6: Get(bucket, k) on an existing bucket, for a key no Save or Incr has
\* written, returns ErrNotfound and no value.
C6_GetUnwrittenNotFound ==
    (Returned("Get") /\ ~LastHist.written)
        => (last.err = ErrNotfound /\ last.val = Nil)

\* Get of an unwritten key returned ErrNotfound from a bucket that holds a
\* greater key, the one the cursor seek lands on
C6_Witness ==
    /\ Returned("Get") /\ ~LastHist.written /\ last.err = ErrNotfound
    /\ \E i \in 1..Len(buckets[last.bucket]) :
          Compare(buckets[last.bucket][i].k, last.key) > 0

\* C7: Get(bucket, k) on a bucket that was never created returns ErrNotfound
\* (an error value, not a crash).
C7_GetAbsentBucketNotFound ==
    (last.op = "Get" /\ last.bucket \notin DOMAIN buckets)
        => last.err = ErrNotfound

\* ------------------------------------------------------------ scan claims
IsScan == last.op \in {"Scan", "FindPrefix", "FindBetween"} /\ last.err # Panic

\* the visitor returned false on the entry visited last
StoppedEarly ==
    /\ Len(last.visited) > 0
    /\ ~Visitor(last.stop, last.visited[Len(last.visited)].k,
                last.visited[Len(last.visited)].v)

\* C8 as stated: a scan whose visitor returned false returns a nil error.
C8_EarlyStopReturnsNil ==
    (IsScan /\ StoppedEarly) => last.err = ErrNil

\* C8 amended: when the visitor passed to Scan, FindPrefix or FindBetween
\* returns false the scan returns the error io.EOF to its caller; it returns
\* nil exactly when the visitor never returned false.
C8_EarlyStopReturnsEOF ==
    IsScan => last.err = (IF StoppedEarly THEN EOF ELSE ErrNil)

\* a FindBetween was stopped by its visitor on the second entry it visited
C8_Witness ==
    /\ last.op = "FindBetween" /\ last.err = EOF
    /\ StoppedEarly /\ Len(last.visited) = 2

\* the entries of the bucket of the last call, by the Saves that returned no error
SavedEntries ==
    {Entry(k, hist[<<last.bucket, k>>].saved[1]) :
        k \in {x \in Keys : hist[<<last.bucket, x>>].saved # Nil}}

Range(seq) == {seq[i] : i \in 1..Len(seq)}

StrictlyAscending(seq) ==
    \A i \in 1..(Len(seq) - 1) : Compare(seq[i].k, seq[i + 1].k) < 0

\* C9: Scan with a visitor that always returns true calls it exactly once
\* for every entry of the bucket, with the entry's stored value, in strictly
\* ascending byte-lexicographic key order, whatever the order of the Saves.
C9_ScanVisitsAllAscending ==
    (Returned("Scan") /\ last.stop = {}) =>
        /\ last.err = ErrNil
        /\ Range(last.visited) = SavedEntries
        /\ Len(last.visited) = Cardinality(SavedEntries)
        /\ StrictlyAscending(last.visited)

\* a Scan visited three entries, not all with the same value
C9_Witness ==
    /\ Returned("Scan") /\ last.stop = {}
    /\ Len(last.visited) = 3
    /\ last.visited[1].v # last.visited[2].v

\* C10: FindPrefix with a visitor that always returns true visits exactly
\* the entries whose key starts with prefix, each once, in ascending order.
C10_FindPrefixVisitsPrefixed ==
    (Returned("FindPrefix") /\ last.stop = {}) =>
        /\ last.err = ErrNil
        /\ Range(last.visited) = {e \in SavedEntries : HasPrefix(e.k, last.key)}
        /\ Len(last.visited) = Cardinality(Range(last.visited))
        /\ StrictlyAscending(last.visited)

\* a FindPrefix visited two entries of a bucket that also holds a key
\* without the prefix
C10_Witness ==
    /\ Returned("FindPrefix") /\ last.stop = {}
    /\ Len(last.visited) = 2
    /\ \E e \in SavedEntries : ~HasPrefix(e.k, last.key)

\* ----------------------------------------------------------- range claims
\* the bounds of the last FindBetween, in order
LowEnd == IF Compare(last.key, last.end) <= 0 THEN last.key ELSE last.end
HighEnd == IF Compare(last.key, last.end) <= 0 THEN last.end ELSE last.key

InRange(e) == Compare(LowEnd, e.k) <= 0 /\ Compare(e.k, HighEnd) <= 0

\* C11: FindBetween with start <= end and a visitor that always returns true
\* visits exactly the entries with start <= key <= end, both bounds
\* inclusive, each once, in ascending key order.
C11_FindBetweenInclusive ==
    (Returned("FindBetween") /\ last.stop = {} /\ Compare(last.key, last.end) <= 0) =>
        /\ last.err = ErrNil
        /\ Range(last.visited) =
              {e \in SavedEntries : Compare(last.key, e.k) <= 0 /\ Compare(e.k, last.end) <= 0}
        /\ Len(last.visited) = Cardinality(Range(last.visited))
        /\ StrictlyAscending(last.visited)

\* a FindBetween visited the entries whose keys are its two bounds and left
\* out an entry outside them
C11_Witness ==
    /\ Returned("FindBetween") /\ last.stop = {} /\ Compare(last.key, last.end) < 0
    /\ Len(last.visited) = 2
    /\ last.visited[1].k = last.key /\ last.visited[2].k = last.end
    /\ Cardinality(SavedEntries) = 3

\* C12: FindBetween(bucket, x, y, visitor) visits the same sequence of
\* entries, and returns the same error, as FindBetween(bucket, y, x, visitor):
\* the entries between the smaller and the greater bound.
C12_FindBetweenSymmetric ==
    Returned("FindBetween") =>
        LET swapped == FindBetweenTx(buckets, last.bucket, last.end, last.key, last.stop)
        IN /\ last.visited = swapped.visited
           /\ last.err = swapped.err
           /\ last.stop = {} => Range(last.visited) = {e \in SavedEntries : InRange(e)}

\* a FindBetween with start > end visited two entries
C12_Witness ==
    /\ Returned("FindBetween") /\ Compare(last.key, last.end) > 0
    /\ Len(last.visited) = 2 /\ last.stop = {}

\* ----------------------------------------------------- frame and idempotence
\* C13: CreateBucketIfNotExist on a bucket that already exists returns no
\* error and leaves every entry of every bucket unchanged.
C13_CreateIdempotent ==
    [][(last'.op = "CreateBucketIfNotExist" /\ last'.bucket \in DOMAIN buckets)
          => (last'.err = ErrNil /\ buckets' = buckets)]_vars

\* CreateBucketIfNotExist returned on a bucket that holds entries
C13_Witness ==
    /\ Returned("CreateBucketIfNotExist")
    /\ last.bucket \in DOMAIN buckets
    /\ Len(buckets[last.bucket]) > 0

\* C19: a Get, Scan, FindPrefix or FindBetween call, whatever it returns,
\* leaves the set of buckets and every bucket's entries unchanged.
C19_ReadsChangeNothing ==
    [][last'.op \in {"Get", "Scan", "FindPrefix", "FindBetween"}
          => buckets' = buckets]_vars

\* a scan stopped by its visitor has returned from a bucket of three entries
C19_Witness ==
    /\ IsScan /\ StoppedEarly
    /\ Len(buckets[last.bucket]) = 3

\* C20: Save(b, k, v), Incr(b, k) and Delete(b, k) change at most the entry
\* of key k in bucket b: every other key of b and every other bucket,
\* an equal key k in it included, keeps its value; no bucket appears or goes.
C20_WritesTouchOnlyTheirKey ==
    [][last'.op \in {"Save", "Incr", "Delete"} =>
          /\ DOMAIN buckets' = DOMAIN buckets
          /\ \A b \in DOMAIN buckets :
                /\ b # last'.bucket => buckets'[b] = buckets[b]
                /\ \A k \in Keys \ {last'.key} :
                      BucketGet(buckets'[b], k) = BucketGet(buckets[b], k)
                /\ Len(buckets'[b]) <= Len(buckets[b]) + 1]_vars

\* a write has stored a value under a key that another bucket holds with a
\* different value
C20_Witness ==
    /\ last.op \in {"Save", "Incr"} /\ last.err = ErrNil
    /\ LastStored # Nil
    /\ \E b \in DOMAIN buckets \ {last.bucket} :
          /\ BucketGet(buckets[b], last.key) # Nil
          /\ BucketGet(buckets[b], last.key) # LastStored

\* ------------------------------------------------------ early termination
\* the entries the last scan is about
Matching ==
    CASE last.op = "Scan" -> SavedEntries
      [] last.op = "FindPrefix" -> {e \in SavedEntries : HasPrefix(e.k, last.key)}
      [] last.op = "FindBetween" -> {e \in SavedEntries : InRange(e)}

\* C17: in Scan, FindPrefix and FindBetween the visitor is never called
\* again once it has returned false: the entries visited are the matching
\* entries in ascending order up to and including the first one on which the
\* visitor returned false, and all of them when it never did.
C17_NoVisitAfterFalse ==
    IsScan =>
        /\ Range(last.visited) \subseteq Matching
        /\ StrictlyAscending(last.visited)
        /\ \A e \in Matching : \A i \in 1..Len(last.visited) :
              Compare(e.k, last.visited[i].k) < 0 => e \in Range(last.visited)
        /\ \A i \in 1..(Len(last.visited) - 1) :
              Visitor(last.stop, last.visited[i].k, last.visited[i].v)
        /\ ~StoppedEarly => Range(last.visited) = Matching

\* a scan was stopped on the second entry it visited and left a matching
\* entry unvisited
C17_Witness ==
    /\ IsScan /\ StoppedEarly
    /\ Len(last.visited) = 2
    /\ Cardinality(Matching) = 3

\* ------------------------------------------------ C14, C15, C16, C18
Writing == {p \in Procs : procs[p].pc = "writing"}

\* C15: write transactions serialize: at most one write transaction is open
\* at any instant, and a write call begins its transaction only when no other
\* write transaction is open.
C15_WritesSerialize ==
    /\ [](Cardinality(Writing) <= 1)
    /\ [][\A p \in Procs :
            (procs[p].pc = "waiting" /\ procs'[p].pc = "writing") => Writing = {}]_vars

\* one caller's write transaction is open while the other caller waits for it
C15_Witness ==
    \E p, q \in Procs : procs[p].pc = "writing" /\ procs[q].pc = "waiting"

ReadOps == {"Scan", "FindPrefix", "FindBetween"}
IsPrefix(s, t) == Len(s) <= Len(t) /\ SubSeq(t, 1, Len(s)) = s

\* what the scan caller p is in visits and returns on the store committed
\* when it began
AtBegin(p) ==
    LET c == procs[p] IN
    CASE c.op = "Scan" -> ScanTx(c.begun, c.bucket, c.stop)
      [] c.op = "FindPrefix" -> FindPrefixTx(c.begun, c.bucket, c.key, c.stop)
      [] c.op = "FindBetween" -> FindBetweenTx(c.begun, c.bucket, c.key, c.arg, c.stop)

\* C14: a scan observes the store committed at its begin for its whole
\* lifetime: whatever write commits while its visitor is being called, the
\* entries it has visited so far are the first ones of the visit of the store
\* at its begin, and once it has returned they are exactly that visit, with
\* that visit's result.
C14_ScanSeesSnapshot ==
    \A p \in Procs :
        (procs[p].op \in ReadOps /\ procs[p].err # Panic) =>
            IF procs[p].pc = "reading"
            THEN IsPrefix(procs[p].visited, AtBegin(p).visited)
            ELSE /\ procs[p].visited = AtBegin(p).visited
                 /\ procs[p].err = AtBegin(p).err

\* a scan has returned after visiting entries, a write committed while it was
\* running, and the bucket it scanned is no longer what it was at its begin
C14_Witness ==
    \E p \in Procs :
        /\ procs[p].op \in ReadOps /\ procs[p].pc = "idle" /\ procs[p].err # Panic
        /\ procs[p].overlapped
        /\ Len(procs[p].visited) >= 1
        /\ procs[p].begun[procs[p].bucket] # buckets[procs[p].bucket]

\* the callers holding the result of an Incr of key k that returned no error
IncrDone(k) ==
    {p \in Procs : /\ procs[p].pc = "idle" /\ procs[p].op = "Incr"
                   /\ procs[p].key = k /\ procs[p].err = ErrNil}

\* C18: concurrent increments lose no update: when the K Incr calls made on
\* a fresh key, by K callers, have all returned without error, the K returned
\* values are exactly 1..K and the stored counter is K.
C18_ConcurrentIncrLosesNone ==
    \A k \in TxKeys :
        LET K == Cardinality(IncrDone(k)) IN
        (K >= 1 /\ hist[<<A, k>>].incrs = K) =>
            /\ \A i \in 1..K : \E p \in IncrDone(k) : procs[p].n = Counter(i)
            /\ \A p \in IncrDone(k) : \E i \in 1..K : procs[p].n = Counter(i)
            /\ BucketGet(buckets[A], k) = Some(CounterBytes(K))

\* both callers called Incr of the same fresh key while the other's call was
\* in progress, and both calls have returned without error
C18_Witness ==
    \E k \in TxKeys :
        /\ IncrDone(k) = Procs
        /\ hist[<<A, k>>].incrs = Cardinality(Procs)
        /\ \A p \in Procs : procs[p].overlapped

\* the write call of p returns in this step, with no error
ReturnsNil(p) ==
    /\ procs[p].pc = "writing" /\ procs'[p].pc = "idle"
    /\ procs'[p].err = ErrNil

\* C16: a write that fails is atomic: a Save or Incr call that returns an
\* error (ErrKeyRequired from the closure, or the engine's error from the
\* commit) changes the committed contents of no bucket at any of its steps;
\* the committed store changes only in the step in which a write call
\* returns no error.
C16_FailedWriteChangesNothing ==
    [][/\ \A p \in Procs :
            (/\ procs[p].pc = "writing" /\ procs'[p].pc = "idle"
             /\ procs[p].op \in {"Save", "Incr"}
             /\ procs'[p].err # ErrNil) => buckets' = buckets
       /\ buckets' # buckets => \E p \in Procs : ReturnsNil(p)]_vars

\* a Save or Incr of a key the bucket does not hold has returned the error of
\* a failed commit, and the bucket still does not hold the key
C16_Witness ==
    \E p \in Procs :
        /\ procs[p].pc = "idle" /\ procs[p].op \in {"Save", "Incr"}
        /\ procs[p].err = ErrIO
        /\ A \in DOMAIN buckets
        /\ BucketGet(buckets[A], procs[p].key) = Nil

====
